---- MODULE Spec2Model ----
(***************************************************************************)
(* Model of package cc (src/cc.go): a pool of concurrent workers built     *)
(* from an unbuffered channel Errors, a buffered channel semaphore of      *)
(* capacity `concurrency` and a sync.WaitGroup.                            *)
(*                                                                         *)
(* Every goroutine of the program is a process of the model: the caller    *)
(* of Run and Wait, one goroutine per Run call (a "unit"), one goroutine   *)
(* per Wait call (a "waiter") and the consumer of the doc example, which   *)
(* ranges over Errors.  A Go run-time panic ends the whole program: it is  *)
(* recorded in `fault` and disables every action.                          *)
(***************************************************************************)
EXTENDS Integers, Naturals, Sequences, FiniteSets, TLC

\* ------------------------------------------------------------------ bounds
MaxUnits == 2
MaxCap == 2
MaxWaits == 2

\* the bodies fn a caller may pass to Run, by the number of values they push
\* onto p.Errors: none, exactly one, more than one
PushCounts == {0, 1, 2}

Pools == {1, 2}
Units == 1..MaxUnits
NoPool == 0
NotBuilt == -100

VARIABLES
  cap,         \* cap[p]: capacity of p.semaphore, NotBuilt before New
  sem,         \* sem[p]: number of values buffered in p.semaphore
  semCloses,   \* semCloses[p]: close(p.semaphore) calls executed
  errCloses,   \* errCloses[p]: close(p.Errors) calls executed
  tracker,     \* tracker[p]: counter of p.wg
  waiterPc,    \* waiterPc[p]: one position per goroutine started by Wait
  callerPc,    \* callerPc[p]: position of the goroutine calling Run and Wait
  consumerPc,  \* consumerPc[p]: position of the `for err := range p.Errors` loop
  received,    \* received[p]: the values the consumer has received, in order
  pool,        \* pool[u]: the pool unit u was submitted to, NoPool before Run
  pc,          \* pc[u]: position of the goroutine started by Run for unit u
  plan,        \* plan[u]: number of values fn pushes onto p.Errors
  left,        \* left[u]: pushes fn has still to do
  fault        \* "none", or the run-time panic that ended the program

vars == <<cap, sem, semCloses, errCloses, tracker, waiterPc, callerPc,
          consumerPc, received, pool, pc, plan, left, fault>>

poolVars == <<cap, sem, semCloses, errCloses, tracker, waiterPc, callerPc,
              consumerPc, received>>

\* ----------------------------------------------------------------- helpers
Built(p) == cap[p] # NotBuilt

\* Errors / semaphore have been closed
ErrorsClosed(p) == errCloses[p] > 0
SemClosed(p) == semCloses[p] > 0

UnitsOf(p) == {u \in Units : pool[u] = p}

\* units between the permit acquire (line 52) and the permit release (line 54)
InBody(p) == {u \in UnitsOf(p) : pc[u] \in {"body", "release"}}

\* Wait has not been called on p
NoWait(p) == waiterPc[p] = <<>>

\* the i-th Run call of the program creates unit i
Unborn == {u \in Units : pc[u] = "unborn"}
NextUnit == CHOOSE u \in Unborn : \A v \in Unborn : u <= v

\* how often value x occurs in the sequence s of received values
RECURSIVE Count(_, _)
Count(s, x) ==
  IF s = <<>> THEN 0
  ELSE (IF Head(s) = x THEN 1 ELSE 0) + Count(Tail(s), x)

\* ---------------------------------------------------------------- New
\* New(concurrency), lines 28-37: channels open and empty, WaitGroup at zero.
\* c[p] is the concurrency pool p is built with, NotBuilt for no pool
New(c) ==
  /\ cap = c
  /\ sem = [p \in Pools |-> 0]
  /\ semCloses = [p \in Pools |-> 0]
  /\ errCloses = [p \in Pools |-> 0]
  /\ tracker = [p \in Pools |-> 0]
  /\ waiterPc = [p \in Pools |-> <<>>]
  /\ callerPc = [p \in Pools |-> "ready"]
  /\ consumerPc = [p \in Pools |-> "idle"]
  /\ received = [p \in Pools |-> <<>>]

\* no Run call yet, the program is running
NoUnits ==
  /\ pool = [u \in Units |-> NoPool]
  /\ pc = [u \in Units |-> "unborn"]
  /\ plan = [u \in Units |-> 0]
  /\ left = [u \in Units |-> 0]
  /\ fault = "none"

\* one pool, built by New(n) with 1 <= n <= MaxCap
OnePool(n) == [p \in Pools |-> IF p = 1 THEN n ELSE NotBuilt]

Init ==
  /\ \E n \in 1..MaxCap : New(OnePool(n))
  /\ NoUnits

\* the concurrency values below 1 a caller may pass to New
NonPositiveCaps == {-1, 0}

\* line 33, make(chan bool, concurrency): a negative size is a run-time
\* panic, size 0 makes an unbuffered channel
MakePanics(n) == n < 0

\* one pool, built by New(n) with any n from -1 to MaxCap; New(n) with n < 0
\* ends the program in New
InitAnyCap ==
  /\ \E n \in NonPositiveCaps \cup (1..MaxCap) :
       /\ New(OnePool(n))
       /\ fault = IF MakePanics(n) THEN "makechan: size out of range" ELSE "none"
  /\ pool = [u \in Units |-> NoPool]
  /\ pc = [u \in Units |-> "unborn"]
  /\ plan = [u \in Units |-> 0]
  /\ left = [u \in Units |-> 0]

\* two pools, built by New(n1) and New(n2): each call makes its own
\* channels and its own WaitGroup (lines 29-35)
TwoPools(n1, n2) == [p \in Pools |-> IF p = 1 THEN n1 ELSE n2]

InitTwo ==
  /\ \E n1, n2 \in 1..MaxCap : New(TwoPools(n1, n2))
  /\ NoUnits

\* ---------------------------------------------------------------- Run
\* Run without line 50: the unit is not counted by the WaitGroup
RunAdd_NoAdd(p, k) ==
  /\ fault = "none"
  /\ Built(p)
  /\ callerPc[p] = "ready"
  /\ Unborn # {}
  /\ pool' = [pool EXCEPT ![NextUnit] = p]
  /\ pc' = [pc EXCEPT ![NextUnit] = "added"]
  /\ plan' = [plan EXCEPT ![NextUnit] = k]
  /\ left' = [left EXCEPT ![NextUnit] = k]
  /\ callerPc' = [callerPc EXCEPT ![p] = "go"]
  /\ UNCHANGED <<cap, sem, semCloses, errCloses, tracker, waiterPc,
                 consumerPc, received, fault>>

\* Run waiting for a free permit before it starts the goroutine: the caller
\* blocks while the semaphore is full
RunAdd_Throttled(p, k) ==
  /\ fault = "none"
  /\ Built(p)
  /\ callerPc[p] = "ready"
  /\ Unborn # {}
  /\ sem[p] < cap[p]
  /\ tracker' = [tracker EXCEPT ![p] = @ + 1]
  /\ pool' = [pool EXCEPT ![NextUnit] = p]
  /\ pc' = [pc EXCEPT ![NextUnit] = "added"]
  /\ plan' = [plan EXCEPT ![NextUnit] = k]
  /\ left' = [left EXCEPT ![NextUnit] = k]
  /\ callerPc' = [callerPc EXCEPT ![p] = "go"]
  /\ UNCHANGED <<cap, sem, semCloses, errCloses, waiterPc, consumerPc,
                 received, fault>>

\* line 50, p.wg.Add(1); fn is a body that pushes k values
RunAdd(p, k) ==
  /\ fault = "none"
  /\ Built(p)
  /\ callerPc[p] = "ready"
  /\ Unborn # {}
  /\ tracker' = [tracker EXCEPT ![p] = @ + 1]
  /\ pool' = [pool EXCEPT ![NextUnit] = p]
  /\ pc' = [pc EXCEPT ![NextUnit] = "added"]
  /\ plan' = [plan EXCEPT ![NextUnit] = k]
  /\ left' = [left EXCEPT ![NextUnit] = k]
  /\ callerPc' = [callerPc EXCEPT ![p] = "go"]
  /\ UNCHANGED <<cap, sem, semCloses, errCloses, waiterPc, consumerPc,
                 received, fault>>

\* line 51, go func(): the goroutine exists and Run returns
RunGo(p) ==
  /\ fault = "none"
  /\ callerPc[p] = "go"
  /\ \E u \in UnitsOf(p) :
       /\ pc[u] = "added"
       /\ pc' = [pc EXCEPT ![u] = "acquire"]
  /\ callerPc' = [callerPc EXCEPT ![p] = "ready"]
  /\ UNCHANGED <<cap, sem, semCloses, errCloses, tracker, waiterPc,
                 consumerPc, received, pool, plan, left, fault>>

\* a send that never blocks on a full buffer
Acquire_NoLimit(u) ==
  /\ fault = "none"
  /\ pc[u] = "acquire"
  /\ IF SemClosed(pool[u])
       THEN /\ fault' = "send on closed channel"
            /\ UNCHANGED <<sem, pc>>
       ELSE /\ sem' = [sem EXCEPT ![pool[u]] = @ + 1]
            /\ pc' = [pc EXCEPT ![u] = "body"]
            /\ UNCHANGED fault
  /\ UNCHANGED <<cap, semCloses, errCloses, tracker, waiterPc, callerPc,
                 consumerPc, received, pool, plan, left>>

\* a send that blocks for ever on a closed channel instead of panicking
Acquire_ClosedBlocks(u) ==
  /\ fault = "none"
  /\ pc[u] = "acquire"
  /\ ~SemClosed(pool[u])
  /\ sem[pool[u]] < cap[pool[u]]
  /\ sem' = [sem EXCEPT ![pool[u]] = @ + 1]
  /\ pc' = [pc EXCEPT ![u] = "body"]
  /\ UNCHANGED <<cap, semCloses, errCloses, tracker, waiterPc, callerPc,
                 consumerPc, received, pool, plan, left, fault>>

\* one semaphore for the whole package instead of one per pool: a send takes
\* a slot in every pool
Acquire_SharedSem(u) ==
  /\ fault = "none"
  /\ pc[u] = "acquire"
  /\ SemClosed(pool[u]) \/ sem[pool[u]] < cap[pool[u]]
  /\ IF SemClosed(pool[u])
       THEN /\ fault' = "send on closed channel"
            /\ UNCHANGED <<sem, pc>>
       ELSE /\ sem' = [p \in Pools |-> sem[p] + 1]
            /\ pc' = [pc EXCEPT ![u] = "body"]
            /\ UNCHANGED fault
  /\ UNCHANGED <<cap, semCloses, errCloses, tracker, waiterPc, callerPc,
                 consumerPc, received, pool, plan, left>>

\* a semaphore that admits one unit at a time whatever its capacity
Acquire_OneAtATime(u) ==
  /\ fault = "none"
  /\ pc[u] = "acquire"
  /\ SemClosed(pool[u]) \/ sem[pool[u]] < 1
  /\ IF SemClosed(pool[u])
       THEN /\ fault' = "send on closed channel"
            /\ UNCHANGED <<sem, pc>>
       ELSE /\ sem' = [sem EXCEPT ![pool[u]] = @ + 1]
            /\ pc' = [pc EXCEPT ![u] = "body"]
            /\ UNCHANGED fault
  /\ UNCHANGED <<cap, semCloses, errCloses, tracker, waiterPc, callerPc,
                 consumerPc, received, pool, plan, left>>

\* line 52, p.semaphore <- true: blocks while the buffer is full, panics
\* on a closed channel
Acquire(u) ==
  /\ fault = "none"
  /\ pc[u] = "acquire"
  /\ SemClosed(pool[u]) \/ sem[pool[u]] < cap[pool[u]]
  /\ IF SemClosed(pool[u])
       THEN /\ fault' = "send on closed channel"
            /\ UNCHANGED <<sem, pc>>
       ELSE /\ sem' = [sem EXCEPT ![pool[u]] = @ + 1]
            /\ pc' = [pc EXCEPT ![u] = "body"]
            /\ UNCHANGED fault
  /\ UNCHANGED <<cap, semCloses, errCloses, tracker, waiterPc, callerPc,
                 consumerPc, received, pool, plan, left>>

\* a send on a buffered Errors: it completes without a receiver
Push_Buffered(u) ==
  /\ fault = "none"
  /\ pc[u] = "body"
  /\ left[u] > 0
  /\ IF ErrorsClosed(pool[u])
       THEN /\ fault' = "send on closed channel"
            /\ UNCHANGED <<received, left>>
       ELSE /\ received' = [received EXCEPT ![pool[u]] = Append(@, u)]
            /\ left' = [left EXCEPT ![u] = @ - 1]
            /\ UNCHANGED fault
  /\ UNCHANGED <<cap, sem, semCloses, errCloses, tracker, waiterPc, callerPc,
                 consumerPc, pool, pc, plan>>

\* line 57, inside fn: p.Errors <- v.  Errors is unbuffered (line 31): the
\* send completes only in a rendezvous with a receiver, panics on a closed
\* channel
Push(u) ==
  /\ fault = "none"
  /\ pc[u] = "body"
  /\ left[u] > 0
  /\ ErrorsClosed(pool[u]) \/ consumerPc[pool[u]] = "recv"
  /\ IF ErrorsClosed(pool[u])
       THEN /\ fault' = "send on closed channel"
            /\ UNCHANGED <<received, left>>
       ELSE /\ received' = [received EXCEPT ![pool[u]] = Append(@, u)]
            /\ left' = [left EXCEPT ![u] = @ - 1]
            /\ UNCHANGED fault
  /\ UNCHANGED <<cap, sem, semCloses, errCloses, tracker, waiterPc, callerPc,
                 consumerPc, pool, pc, plan>>

\* line 57, fn returns; the deferred function starts
Return(u) ==
  /\ fault = "none"
  /\ pc[u] = "body"
  /\ left[u] = 0
  /\ pc' = [pc EXCEPT ![u] = "release"]
  /\ UNCHANGED <<poolVars, pool, plan, left, fault>>

\* the deferred function without the receive: the permit is never given back
Release_KeepPermit(u) ==
  /\ fault = "none"
  /\ pc[u] = "release"
  /\ pc' = [pc EXCEPT ![u] = "done"]
  /\ UNCHANGED <<poolVars, pool, plan, left, fault>>

\* line 54, <-p.semaphore: takes a buffered value, or the zero value of a
\* closed and empty channel; blocks on an open and empty one
Release(u) ==
  /\ fault = "none"
  /\ pc[u] = "release"
  /\ sem[pool[u]] > 0 \/ SemClosed(pool[u])
  /\ sem' = [sem EXCEPT ![pool[u]] = IF @ > 0 THEN @ - 1 ELSE @]
  /\ pc' = [pc EXCEPT ![u] = "done"]
  /\ UNCHANGED <<cap, semCloses, errCloses, tracker, waiterPc, callerPc,
                 consumerPc, received, pool, plan, left, fault>>

\* the deferred function without p.wg.Done()
WgDone_NoDecrement(u) ==
  /\ fault = "none"
  /\ pc[u] = "done"
  /\ pc' = [pc EXCEPT ![u] = "finished"]
  /\ UNCHANGED <<poolVars, pool, plan, left, fault>>

\* the last unit to finish closes Errors itself, whether or not Wait was
\* called
WgDone_ClosesAtZero(u) ==
  /\ fault = "none"
  /\ pc[u] = "done"
  /\ tracker' = [tracker EXCEPT ![pool[u]] = @ - 1]
  /\ errCloses' = [errCloses EXCEPT
                     ![pool[u]] = IF tracker[pool[u]] = 1 THEN @ + 1 ELSE @]
  /\ pc' = [pc EXCEPT ![u] = "finished"]
  /\ UNCHANGED <<cap, sem, semCloses, waiterPc, callerPc, consumerPc,
                 received, pool, plan, left, fault>>

\* line 55, p.wg.Done()
WgDone(u) ==
  /\ fault = "none"
  /\ pc[u] = "done"
  /\ tracker' = [tracker EXCEPT ![pool[u]] = @ - 1]
  /\ fault' = IF tracker[pool[u]] < 1
                THEN "sync: negative WaitGroup counter" ELSE fault
  /\ pc' = [pc EXCEPT ![u] = "finished"]
  /\ UNCHANGED <<cap, sem, semCloses, errCloses, waiterPc, callerPc,
                 consumerPc, received, pool, plan, left>>

\* ---------------------------------------------------------------- Wait
\* Wait without the goroutine: p.wg.Wait() runs in the caller, which blocks
\* until the counter is zero
Wait_Blocking(p) ==
  /\ fault = "none"
  /\ Built(p)
  /\ callerPc[p] = "ready"
  /\ tracker[p] = 0
  /\ waiterPc' = [waiterPc EXCEPT ![p] = Append(@, "closeErrors")]
  /\ UNCHANGED <<cap, sem, semCloses, errCloses, tracker, callerPc,
                 consumerPc, received, pool, pc, plan, left, fault>>

\* line 41, go func(): the waiter exists and Wait returns
Wait(p) ==
  /\ fault = "none"
  /\ Built(p)
  /\ callerPc[p] = "ready"
  /\ waiterPc' = [waiterPc EXCEPT ![p] = Append(@, "wgwait")]
  /\ UNCHANGED <<cap, sem, semCloses, errCloses, tracker, callerPc,
                 consumerPc, received, pool, pc, plan, left, fault>>

Waiters(p) == DOMAIN waiterPc[p]

\* a waiter that does not wait for the counter
WgWait_NoBlock(p, w) ==
  /\ fault = "none"
  /\ w \in Waiters(p)
  /\ waiterPc[p][w] = "wgwait"
  /\ waiterPc' = [waiterPc EXCEPT ![p][w] = "closeErrors"]
  /\ UNCHANGED <<cap, sem, semCloses, errCloses, tracker, callerPc,
                 consumerPc, received, pool, pc, plan, left, fault>>

\* a waiter without line 43: only the semaphore is closed
WgWait_SkipErrors(p, w) ==
  /\ fault = "none"
  /\ w \in Waiters(p)
  /\ waiterPc[p][w] = "wgwait"
  /\ tracker[p] = 0
  /\ waiterPc' = [waiterPc EXCEPT ![p][w] = "closeSem"]
  /\ UNCHANGED <<cap, sem, semCloses, errCloses, tracker, callerPc,
                 consumerPc, received, pool, pc, plan, left, fault>>

\* line 42, p.wg.Wait() returns once the counter is zero
WgWait(p, w) ==
  /\ fault = "none"
  /\ w \in Waiters(p)
  /\ waiterPc[p][w] = "wgwait"
  /\ tracker[p] = 0
  /\ waiterPc' = [waiterPc EXCEPT ![p][w] = "closeErrors"]
  /\ UNCHANGED <<cap, sem, semCloses, errCloses, tracker, callerPc,
                 consumerPc, received, pool, pc, plan, left, fault>>

\* a close that does nothing on a closed channel
CloseErrors_Idempotent(p, w) ==
  /\ fault = "none"
  /\ w \in Waiters(p)
  /\ waiterPc[p][w] = "closeErrors"
  /\ errCloses' = [errCloses EXCEPT ![p] = IF @ > 0 THEN @ ELSE @ + 1]
  /\ waiterPc' = [waiterPc EXCEPT ![p][w] = "closeSem"]
  /\ UNCHANGED <<cap, sem, semCloses, tracker, callerPc, consumerPc,
                 received, pool, pc, plan, left, fault>>

\* line 43, close(p.Errors): panics on a closed channel
CloseErrors(p, w) ==
  /\ fault = "none"
  /\ w \in Waiters(p)
  /\ waiterPc[p][w] = "closeErrors"
  /\ errCloses' = [errCloses EXCEPT ![p] = @ + 1]
  /\ fault' = IF ErrorsClosed(p) THEN "close of closed channel" ELSE fault
  /\ waiterPc' = [waiterPc EXCEPT ![p][w] = "closeSem"]
  /\ UNCHANGED <<cap, sem, semCloses, tracker, callerPc, consumerPc,
                 received, pool, pc, plan, left>>

\* line 44, close(p.semaphore): panics on a closed channel
CloseSem(p, w) ==
  /\ fault = "none"
  /\ w \in Waiters(p)
  /\ waiterPc[p][w] = "closeSem"
  /\ semCloses' = [semCloses EXCEPT ![p] = @ + 1]
  /\ fault' = IF SemClosed(p) THEN "close of closed channel" ELSE fault
  /\ waiterPc' = [waiterPc EXCEPT ![p][w] = "done"]
  /\ UNCHANGED <<cap, sem, errCloses, tracker, callerPc, consumerPc,
                 received, pool, pc, plan, left>>

\* ------------------------------------------------------------ the consumer
\* line 17, for err := range p.Errors: the loop is entered
ConsumerStart(p) ==
  /\ fault = "none"
  /\ Built(p)
  /\ consumerPc[p] = "idle"
  /\ consumerPc' = [consumerPc EXCEPT ![p] = "recv"]
  /\ UNCHANGED <<cap, sem, semCloses, errCloses, tracker, waiterPc, callerPc,
                 received, pool, pc, plan, left, fault>>

\* a consumer that stops after one value per submitted unit instead of
\* ranging until Errors is closed
ConsumerClosed_AfterM(p) ==
  /\ fault = "none"
  /\ consumerPc[p] = "recv"
  /\ ~NoWait(p)
  /\ Len(received[p]) >= Cardinality(UnitsOf(p))
  /\ consumerPc' = [consumerPc EXCEPT ![p] = "done"]
  /\ UNCHANGED <<cap, sem, semCloses, errCloses, tracker, waiterPc, callerPc,
                 received, pool, pc, plan, left, fault>>

\* line 17, the range loop ends when it finds Errors closed
ConsumerClosed(p) ==
  /\ fault = "none"
  /\ consumerPc[p] = "recv"
  /\ ErrorsClosed(p)
  /\ consumerPc' = [consumerPc EXCEPT ![p] = "done"]
  /\ UNCHANGED <<cap, sem, semCloses, errCloses, tracker, waiterPc, callerPc,
                 received, pool, pc, plan, left, fault>>

\* ------------------------------------------------------ the caller's program
\* The usage of the doc example (lines 11-15): every Run call precedes the
\* one Wait call.
Submit(p, k) == NoWait(p) /\ RunAdd(p, k)

CallWait(p) == NoWait(p) /\ Wait(p)

Next ==
  \/ \E p \in Pools, k \in PushCounts : Submit(p, k)
  \/ \E p \in Pools : RunGo(p)
  \/ \E p \in Pools : CallWait(p)
  \/ \E u \in Units : Acquire(u)
  \/ \E u \in Units : Push(u)
  \/ \E u \in Units : Return(u)
  \/ \E u \in Units : Release(u)
  \/ \E u \in Units : WgDone(u)
  \/ \E p \in Pools : \E w \in Waiters(p) : WgWait(p, w)
  \/ \E p \in Pools : \E w \in Waiters(p) : CloseErrors(p, w)
  \/ \E p \in Pools : \E w \in Waiters(p) : CloseSem(p, w)
  \/ \E p \in Pools : ConsumerStart(p)
  \/ \E p \in Pools : ConsumerClosed(p)

Spec == Init /\ [][Next]_vars

\* The goroutines of the program are scheduled fairly: a goroutine that can
\* take its next step takes it.  The caller's own choices (another Run, Wait,
\* starting the consumer) are not forced.
Fairness ==
  /\ \A u \in Units :
       /\ WF_vars(Acquire(u))
       /\ WF_vars(Push(u))
       /\ WF_vars(Return(u))
       /\ WF_vars(Release(u))
       /\ WF_vars(WgDone(u))
  /\ \A p \in Pools :
       /\ WF_vars(RunGo(p))
       /\ WF_vars(WgWait(p, 1))
       /\ WF_vars(CloseErrors(p, 1))
       /\ WF_vars(CloseSem(p, 1))
       /\ WF_vars(ConsumerClosed(p))

SpecLive == Init /\ [][Next]_vars /\ Fairness

SpecAnyCap == InitAnyCap /\ [][Next]_vars

\* A caller that calls Wait again, up to MaxWaits times in all: each call
\* starts one more waiter goroutine (line 41).
CallWaitAgain(p) ==
  /\ ~NoWait(p)
  /\ Len(waiterPc[p]) < MaxWaits
  /\ Wait(p)

NextWaitTwice ==
  \/ Next
  \/ \E p \in Pools : CallWaitAgain(p)

SpecWaitTwice == Init /\ [][NextWaitTwice]_vars

\* every waiter goroutine is scheduled fairly
FairWaiters ==
  \A p \in Pools : \A w \in 1..MaxWaits :
    /\ WF_vars(WgWait(p, w))
    /\ WF_vars(CloseErrors(p, w))
    /\ WF_vars(CloseSem(p, w))

SpecWaitTwiceLive == Init /\ [][NextWaitTwice]_vars /\ Fairness /\ FairWaiters

\* A caller that calls Run after Wait.  sync.WaitGroup forbids an Add that
\* starts from zero while a Wait call has not returned (the outcome is not
\* defined by its contract): that one case is left out, every other Run
\* after Wait is a step of this program.
LateSubmit(p, k) ==
  /\ ~NoWait(p)
  /\ ~(tracker[p] = 0 /\ \E w \in Waiters(p) : waiterPc[p][w] = "wgwait")
  /\ RunAdd(p, k)

NextLateRun ==
  \/ Next
  \/ \E p \in Pools, k \in PushCounts : LateSubmit(p, k)

SpecLateRun == Init /\ [][NextLateRun]_vars

SpecLateRunLive == Init /\ [][NextLateRun]_vars /\ Fairness

\* The program with two pools: as Next, with every fn keeping the contract
\* of one push per unit.
NextTwo ==
  \/ \E p \in Pools : Submit(p, 1)
  \/ \E p \in Pools : RunGo(p)
  \/ \E p \in Pools : CallWait(p)
  \/ \E u \in Units : Acquire(u)
  \/ \E u \in Units : Push(u)
  \/ \E u \in Units : Return(u)
  \/ \E u \in Units : Release(u)
  \/ \E u \in Units : WgDone(u)
  \/ \E p \in Pools : \E w \in Waiters(p) : WgWait(p, w)
  \/ \E p \in Pools : \E w \in Waiters(p) : CloseErrors(p, w)
  \/ \E p \in Pools : \E w \in Waiters(p) : CloseSem(p, w)
  \/ \E p \in Pools : ConsumerStart(p)
  \/ \E p \in Pools : ConsumerClosed(p)

SpecTwo == InitTwo /\ [][NextTwo]_vars

TypeOK ==
  /\ cap \in [Pools -> Int]
  /\ sem \in [Pools -> Nat]
  /\ tracker \in [Pools -> Int]
  /\ pool \in [Units -> Pools \cup {NoPool}]
  /\ pc \in [Units -> {"unborn", "added", "acquire", "body", "release",
                       "done", "finished"}]
  /\ plan \in [Units -> PushCounts]
  /\ left \in [Units -> Nat]

\* ------------------------------------------------------------------ claims
Waited(p) == ~NoWait(p)
Draining(p) == consumerPc[p] = "recv"
Drained(p) == consumerPc[p] = "done"
AllFinished(p) == \A u \in UnitsOf(p) : pc[u] = "finished"
AllPushOne(p) == \A u \in UnitsOf(p) : plan[u] = 1
Pushed(u) == plan[u] - left[u]
ReturnedFromBody(u) == pc[u] \in {"release", "done", "finished"}

\* C1: in a pool built with capacity N >= 1, at most N units are between
\* their permit acquire and their permit release, in every reachable state.
C1_AtMostNInBody ==
  \A p \in Pools :
    (Built(p) /\ cap[p] >= 1) => Cardinality(InBody(p)) <= cap[p]

\* every permit is held and one more unit waits for one
C1_Witness ==
  \E p \in Pools :
    /\ Cardinality(InBody(p)) = cap[p]
    /\ \E u \in UnitsOf(p) : pc[u] = "acquire"

\* C2: with every Run before the one Wait, whenever Errors is closed every
\* submitted unit has finished (returned from its body, released its permit
\* and called Done), no Run is half way, no unit has a push left and no send
\* hit the closed channel.
C2_ClosedAfterLastUnit ==
  \A p \in Pools :
    ErrorsClosed(p) =>
      /\ AllFinished(p)
      /\ \A u \in UnitsOf(p) : left[u] = 0
      /\ callerPc[p] = "ready"
      /\ fault = "none"

\* Errors is closed after every unit of a full pool pushed and finished
C2_Witness ==
  \E p \in Pools :
    /\ ErrorsClosed(p)
    /\ UnitsOf(p) = Units
    /\ \A u \in Units : Pushed(u) >= 1

\* C3: when every submitted unit pushes exactly one value, a consumer that
\* sees Errors closed has received each unit's value exactly once, M values
\* in all.
C3_ExactlyOncePerUnit ==
  \A p \in Pools :
    (Drained(p) /\ AllPushOne(p)) =>
      /\ Len(received[p]) = Cardinality(UnitsOf(p))
      /\ \A u \in UnitsOf(p) : Count(received[p], u) = 1

\* the drain of a full pool of one-push units has ended
C3_Witness ==
  \E p \in Pools :
    /\ Drained(p)
    /\ AllPushOne(p)
    /\ UnitsOf(p) = Units
    /\ Len(received[p]) = MaxUnits

\* C4: under fair scheduling, once Wait is issued and the consumer drains,
\* with every unit pushing exactly one value, eventually every unit has
\* finished, Errors is closed and the consumer's loop has ended.
C4_DrainTerminates ==
  \A p \in Pools :
    (Waited(p) /\ Draining(p) /\ AllPushOne(p))
      ~> (Drained(p) /\ AllFinished(p) /\ ErrorsClosed(p))

\* the drain has ended for more units than the pool has permits
C4_Witness ==
  \E p \in Pools :
    /\ Drained(p)
    /\ AllPushOne(p)
    /\ AllFinished(p)
    /\ Cardinality(UnitsOf(p)) > cap[p]

\* C5, as stated: Errors is closed exactly when the counter is zero and Wait
\* has been issued.
C5_ClosedIffZeroAndWaited ==
  \A p \in Pools :
    Built(p) => (ErrorsClosed(p) <=> (tracker[p] = 0 /\ Waited(p)))

\* C5, amended: Errors is closed only when the counter is zero and Wait has
\* been issued; when the counter is zero and Wait has been issued, Errors is
\* closed or the waiter has still to run p.wg.Wait() or close(p.Errors).
C5_ClosedOnlyAfterZeroAndWaited ==
  \A p \in Pools :
    /\ ErrorsClosed(p) => (tracker[p] = 0 /\ Waited(p))
    /\ (tracker[p] = 0 /\ Waited(p) /\ ~ErrorsClosed(p)) =>
         waiterPc[p][1] \in {"wgwait", "closeErrors"}

\* the counter is back at zero after units ran, Wait is issued, Errors is
\* still open
C5_Witness ==
  \E p \in Pools :
    /\ UnitsOf(p) # {}
    /\ tracker[p] = 0
    /\ Waited(p)
    /\ ~ErrorsClosed(p)
    /\ waiterPc[p][1] = "closeErrors"

\* C6: with one Wait after every Run, close(p.Errors) and
\* close(p.semaphore) are each executed at most once, the semaphore is closed
\* only after Errors, a waiter that has ended has executed each exactly once,
\* and no close hit a closed channel.
C6_EachClosedOnce ==
  \A p \in Pools :
    /\ errCloses[p] <= 1
    /\ semCloses[p] <= 1
    /\ SemClosed(p) => ErrorsClosed(p)
    /\ \A w \in Waiters(p) :
         /\ waiterPc[p][w] = "closeSem" => (errCloses[p] = 1 /\ semCloses[p] = 0)
         /\ waiterPc[p][w] = "done" => (errCloses[p] = 1 /\ semCloses[p] = 1)
    /\ fault # "close of closed channel"

\* the waiter has ended after units ran
C6_Witness ==
  \E p \in Pools :
    /\ UnitsOf(p) = Units
    /\ waiterPc[p] = <<"done">>
    /\ errCloses[p] = 1
    /\ semCloses[p] = 1

\* C7, as stated: once a unit has returned without pushing, the waiter never
\* leaves p.wg.Wait(), Errors is never closed and the drain never ends.
C7_NoPushHangs ==
  \A p \in Pools :
    (\E u \in UnitsOf(p) : plan[u] = 0 /\ ReturnedFromBody(u)) =>
      /\ \A w \in Waiters(p) : waiterPc[p][w] = "wgwait"
      /\ ~ErrorsClosed(p)
      /\ ~Drained(p)

\* C7, amended: a unit that returns without pushing still releases its
\* permit and calls Done; under fair scheduling, once Wait is issued and the
\* consumer drains, the drain ends, with one value from each unit that
\* pushed one and none from those that pushed none.
C7_NoPushStillCloses ==
  \A p \in Pools :
    (/\ Waited(p)
     /\ Draining(p)
     /\ \E u \in UnitsOf(p) : plan[u] = 0
     /\ \A u \in UnitsOf(p) : plan[u] <= 1)
      ~> (/\ Drained(p)
          /\ ErrorsClosed(p)
          /\ tracker[p] = 0
          /\ \A u \in UnitsOf(p) : Count(received[p], u) = plan[u])

\* the drain has ended with one value, one unit having pushed none
C7_Witness ==
  \E p \in Pools :
    /\ Drained(p)
    /\ \E u \in UnitsOf(p) : plan[u] = 0 /\ pc[u] = "finished"
    /\ \E u \in UnitsOf(p) : plan[u] = 1
    /\ Len(received[p]) = 1

\* C8, as stated: once a unit has pushed more than one value, Errors is
\* never closed, also with a consumer draining.
C8_MultiPushHangs ==
  \A p \in Pools :
    (\E u \in UnitsOf(p) : Pushed(u) > 1) => ~ErrorsClosed(p)

\* C8, amended: with a consumer draining, every push of a unit that pushes
\* more than one value is received; under fair scheduling, once Wait is
\* issued, the drain ends with as many values of each unit as it pushed.
C8_MultiPushStillCloses ==
  \A p \in Pools :
    (/\ Waited(p)
     /\ Draining(p)
     /\ \E u \in UnitsOf(p) : plan[u] > 1)
      ~> (/\ Drained(p)
          /\ ErrorsClosed(p)
          /\ AllFinished(p)
          /\ \A u \in UnitsOf(p) : Count(received[p], u) = plan[u])

\* the drain has ended with more values than units
C8_Witness ==
  \E p \in Pools :
    /\ Drained(p)
    /\ \E u \in UnitsOf(p) : plan[u] > 1
    /\ Len(received[p]) > Cardinality(UnitsOf(p))
    /\ UnitsOf(p) = Units

\* C9: Run never blocks and takes no permit: line 50 can run whenever the
\* caller is ready (while the model has a unit left to submit) and line 51
\* whenever the caller is at it, whatever the semaphore holds; the permits
\* taken are those of the units in their body.
C9_RunNeverBlocks ==
  \A p \in Pools :
    /\ (fault = "none" /\ Built(p) /\ callerPc[p] = "ready" /\ Unborn # {})
         => \A k \in PushCounts : ENABLED RunAdd(p, k)
    /\ (fault = "none" /\ callerPc[p] = "go") => ENABLED RunGo(p)
    /\ Built(p) => sem[p] = Cardinality(InBody(p))

\* more activities than permits exist at once: every permit is held by a
\* unit in its body, the other units are blocked at the acquire
C9_Witness ==
  \E p \in Pools :
    /\ UnitsOf(p) = Units
    /\ callerPc[p] = "ready"
    /\ MaxUnits > cap[p]
    /\ \A u \in Units : pc[u] \in {"acquire", "body"}
    /\ Cardinality({u \in Units : pc[u] = "body"}) = cap[p]
    /\ sem[p] = cap[p]

\* C10: Wait never blocks: line 41 can run whenever the caller is ready,
\* whatever the counter; only the waiter goroutine waits and closes, so
\* while a waiter is in p.wg.Wait() the caller is not held and nothing is
\* closed.
C10_WaitNeverBlocks ==
  \A p \in Pools :
    /\ (fault = "none" /\ Built(p) /\ callerPc[p] = "ready") => ENABLED Wait(p)
    /\ \A w \in Waiters(p) :
         waiterPc[p][w] = "wgwait" =>
           (callerPc[p] = "ready" /\ ~ErrorsClosed(p) /\ ~SemClosed(p))

\* Wait has returned while one unit is blocked on a permit and another on
\* its push
C10_Witness ==
  \E p \in Pools :
    /\ waiterPc[p] = <<"wgwait">>
    /\ callerPc[p] = "ready"
    /\ tracker[p] = MaxUnits
    /\ consumerPc[p] = "idle"
    /\ \E u \in UnitsOf(p) : pc[u] = "acquire" /\ sem[p] = cap[p]
    /\ \E u \in UnitsOf(p) : pc[u] = "body" /\ left[u] > 0

\* the units of p whose body pushes at least one value
Pushers(p) == {u \in UnitsOf(p) : plan[u] >= 1}

\* C11: while no consumer receives from Errors, every unit that pushes is
\* still at or before its first push, which cannot complete, and a unit in
\* its body keeps its permit; once one such unit is submitted the counter is
\* above zero and Errors is open; once N such units are in their body no
\* other unit can acquire a permit.
C11_NoConsumerBlocksPushers ==
  \A p \in Pools :
    consumerPc[p] = "idle" =>
      /\ \A u \in Pushers(p) :
           /\ pc[u] \in {"added", "acquire", "body"}
           /\ left[u] = plan[u]
           /\ pc[u] = "body" => ~ENABLED Push(u)
      /\ sem[p] >= Cardinality({u \in Pushers(p) : pc[u] = "body"})
      /\ Pushers(p) # {} => (tracker[p] > 0 /\ ~ErrorsClosed(p))
      /\ Cardinality({u \in Pushers(p) : pc[u] = "body"}) = cap[p] =>
           \A u \in UnitsOf(p) : pc[u] = "acquire" => ~ENABLED Acquire(u)

\* Wait is issued, no consumer: one pushing unit holds the only permit at
\* its push, the other waits for a permit, the waiter waits for the counter
C11_Witness ==
  \E p \in Pools :
    /\ consumerPc[p] = "idle"
    /\ waiterPc[p] = <<"wgwait">>
    /\ Pushers(p) = Units
    /\ Cardinality({u \in Units : pc[u] = "body"}) = cap[p]
    /\ \E u \in Units : pc[u] = "acquire"

\* C12, as stated: with a capacity of zero or less, the program only blocks:
\* no panic, no unit ever past its permit acquire, and Errors never closed
\* once a unit is submitted.
C12_NonPositiveOnlyBlocks ==
  \A p \in Pools :
    (Built(p) /\ cap[p] <= 0) =>
      /\ fault = "none"
      /\ \A u \in UnitsOf(p) : pc[u] \in {"added", "acquire"}
      /\ UnitsOf(p) # {} => ~ErrorsClosed(p)

\* C12, amended: with capacity 0 the semaphore is unbuffered and never has a
\* receiver before a sender: no unit ever gets past its permit acquire, the
\* counter stays at the number of submitted units and, once a unit is
\* submitted, neither channel is ever closed.  With a negative capacity
\* New itself panics in make: there is no pool to submit to.
C12_ZeroBlocksNegativePanics ==
  \A p \in Pools :
    /\ (Built(p) /\ cap[p] = 0) =>
         /\ fault = "none"
         /\ sem[p] = 0
         /\ \A u \in UnitsOf(p) :
              /\ pc[u] \in {"added", "acquire"}
              /\ pc[u] = "acquire" => ~ENABLED Acquire(u)
         /\ tracker[p] = Cardinality(UnitsOf(p))
         /\ UnitsOf(p) # {} => (~ErrorsClosed(p) /\ ~SemClosed(p))
    /\ (Built(p) /\ cap[p] < 0) =>
         /\ fault = "makechan: size out of range"
         /\ UnitsOf(p) = {}
         /\ NoWait(p)

\* capacity 0: every unit is stuck at its acquire, Wait is issued, a
\* consumer drains, the waiter still waits
C12_Witness ==
  \E p \in Pools :
    /\ cap[p] = 0
    /\ UnitsOf(p) = Units
    /\ \A u \in Units : pc[u] = "acquire"
    /\ waiterPc[p] = <<"wgwait">>
    /\ consumerPc[p] = "recv"

\* C13, as stated: a second Wait never surfaces as a fault, the program only
\* blocks.
C13_SecondWaitOnlyBlocks ==
  \A p \in Pools : Len(waiterPc[p]) >= 2 => fault = "none"

\* C13, amended: a second Wait is not detected by Wait itself, but it does
\* not block: under fair scheduling, once the counter is zero every waiter
\* returns from p.wg.Wait() and the second close(p.Errors) panics with
\* "close of closed channel", which ends the program.
C13_SecondWaitPanics ==
  \A p \in Pools :
    (Len(waiterPc[p]) >= 2 /\ tracker[p] = 0)
      ~> (fault = "close of closed channel" /\ errCloses[p] = 2)

\* the second close(p.Errors) has panicked after every unit ran and pushed
C13_Witness ==
  \E p \in Pools :
    /\ Len(waiterPc[p]) >= 2
    /\ UnitsOf(p) = Units
    /\ \A u \in Units : pc[u] = "finished" /\ Pushed(u) >= 1
    /\ errCloses[p] = 2
    /\ fault = "close of closed channel"

\* C14, as stated: a Run after Wait never surfaces as a fault, the program
\* only blocks.
C14_LateRunOnlyBlocks ==
  \A p \in Pools : ~NoWait(p) => fault = "none"

\* C14, amended: a Run after Wait is not detected by Run itself, but once
\* the waiter has closed the semaphore the goroutine Run starts does not
\* block: under fair scheduling the program ends in the panic "send on
\* closed channel" (the send of line 52, or an earlier unit's push onto the
\* closed Errors).
C14_LateRunPanics ==
  \A u \in Units :
    (pc[u] \in {"added", "acquire"} /\ SemClosed(pool[u]))
      ~> (fault = "send on closed channel")

\* a unit submitted after an earlier one finished and both channels were
\* closed has panicked at its send on the semaphore
C14_Witness ==
  \E u, v \in Units :
    /\ pool[u] = pool[v]
    /\ pc[v] = "finished"
    /\ pc[u] = "acquire"
    /\ SemClosed(pool[u])
    /\ ErrorsClosed(pool[u])
    /\ fault = "send on closed channel"

\* value i of received[p] comes from another unit than the later value j
Before(p, i, j) ==
  /\ i \in 1..Len(received[p])
  /\ j \in 1..Len(received[p])
  /\ i < j
  /\ received[p][i] # received[p][j]

\* C15, as stated: of two one-push units, the one whose value is received
\* first completes first: the later one has not finished while the earlier
\* one is still in its body.
C15_ReceiptIsCompletionOrder ==
  \A p \in Pools : \A i, j \in 1..(2 * MaxUnits) :
    (/\ Before(p, i, j)
     /\ plan[received[p][i]] = 1
     /\ plan[received[p][j]] = 1
     /\ pc[received[p][j]] = "finished")
      => ReturnedFromBody(received[p][i])

\* C15, amended: the stream holds the values in the order of the sends, each
\* push of each unit once; that order is the completion order when the
\* capacity is 1, where a unit whose value precedes another unit's has
\* already released its permit.
C15_ReceiptIsPushOrder ==
  \A p \in Pools :
    /\ \A u \in UnitsOf(p) : Count(received[p], u) = Pushed(u)
    /\ cap[p] = 1 =>
         \A i, j \in 1..(2 * MaxUnits) :
           Before(p, i, j) => pc[received[p][i]] \in {"done", "finished"}

\* with two permits the drain ended in the reverse of the submission order
C15_Witness ==
  \E p \in Pools :
    /\ cap[p] >= 2
    /\ Drained(p)
    /\ received[p] = <<2, 1>>

\* the fields of pool p, and the goroutines Run started for it
PoolState(p) ==
  <<cap[p], sem[p], semCloses[p], errCloses[p], tracker[p], waiterPc[p],
    callerPc[p], consumerPc[p], received[p]>>
UnitState(p) == [u \in UnitsOf(p) |-> <<pc[u], plan[u], left[u]>>]

\* C16: of two pools built by separate New calls, every step changes at
\* most one: the other pool's capacity, semaphore, counter, Errors
\* contents, closed flags and goroutines stay as they are; and whether a
\* unit gets a permit or delivers its value depends on its own pool alone.
C16_PoolsIndependent ==
  /\ [][\E q \in Pools : \A p \in Pools \ {q} :
          /\ PoolState(p)' = PoolState(p)
          /\ UnitsOf(p)' = UnitsOf(p)
          /\ UnitState(p)' = UnitState(p)]_vars
  /\ [](\A u \in Units :
          /\ (pc[u] = "acquire" /\ sem[pool[u]] < cap[pool[u]])
               => ENABLED Acquire(u)
          /\ (pc[u] = "body" /\ left[u] > 0 /\ consumerPc[pool[u]] = "recv")
               => ENABLED Push(u))

\* pool 1 is saturated and hung (no consumer, every permit held by a unit
\* blocked at its push) while pool 2 has delivered its result and closed
C16_Witness ==
  /\ consumerPc[1] = "idle"
  /\ sem[1] = cap[1]
  /\ \E u \in UnitsOf(1) : pc[u] = "body" /\ left[u] > 0
  /\ \E u \in UnitsOf(2) : pc[u] = "finished" /\ Pushed(u) >= 1
  /\ Drained(2)
  /\ SemClosed(2)

\* the units of p whose goroutine has not yet called Done
Outstanding(p) == {u \in UnitsOf(p) : pc[u] # "finished"}

\* C17: the counter equals the number of submitted units that have not yet
\* called Done, and every unit moves through its steps in the order Add,
\* go, acquire, body, release, Done: the counter goes up in Run before the
\* goroutine exists, the permit is taken before the body and given back
\* after it, and the counter goes down last.
C17_StepOrder ==
  /\ [](\A p \in Pools : Built(p) => tracker[p] = Cardinality(Outstanding(p)))
  /\ [][\A u \in Units : pc'[u] # pc[u] =>
          \/ /\ pc[u] = "unborn" /\ pc'[u] = "added"
             /\ tracker'[pool'[u]] = tracker[pool'[u]] + 1
             /\ callerPc'[pool'[u]] = "go"
             /\ UNCHANGED sem
          \/ /\ pc[u] = "added" /\ pc'[u] = "acquire"
             /\ UNCHANGED <<tracker, sem>>
          \/ /\ pc[u] = "acquire" /\ pc'[u] = "body"
             /\ sem'[pool[u]] = sem[pool[u]] + 1
             /\ UNCHANGED tracker
          \/ /\ pc[u] = "body" /\ pc'[u] = "release"
             /\ UNCHANGED <<tracker, sem>>
          \/ /\ pc[u] = "release" /\ pc'[u] = "done"
             /\ sem'[pool[u]] = sem[pool[u]] - 1
             /\ UNCHANGED tracker
          \/ /\ pc[u] = "done" /\ pc'[u] = "finished"
             /\ tracker'[pool[u]] = tracker[pool[u]] - 1
             /\ UNCHANGED sem]_vars

\* a unit that pushed nothing has called Done: the counter is back at zero
\* after every unit finished
C17_Witness ==
  \E p \in Pools :
    /\ UnitsOf(p) = Units
    /\ \E u \in Units : plan[u] = 0
    /\ \A u \in Units : pc[u] = "finished"
    /\ tracker[p] = 0

\* C18: before Wait is called neither channel is closed, also when the
\* counter is back at zero between two submissions, and the next Run can
\* start.
C18_NoCloseBeforeWait ==
  \A p \in Pools :
    (Built(p) /\ NoWait(p)) =>
      /\ ~ErrorsClosed(p)
      /\ ~SemClosed(p)
      /\ fault = "none"
      /\ (tracker[p] = 0 /\ Unborn # {}) =>
           \A k \in PushCounts : ENABLED RunAdd(p, k)

\* the first unit has pushed and finished, the counter is at zero, Wait is
\* not called and the next unit is still to be submitted
C18_Witness ==
  \E p \in Pools :
    /\ NoWait(p)
    /\ pc[1] = "finished"
    /\ received[p] = <<1>>
    /\ tracker[p] = 0
    /\ sem[p] = 0
    /\ Unborn # {}
    /\ ~ErrorsClosed(p)

\* C19: with every Run before the one Wait, a counter at zero means an empty
\* semaphore; when the waiter is at or past close(p.semaphore) every unit
\* has finished, so no unit is left to send on or receive from the closed
\* semaphore, and no send hit a closed channel.
C19_NoPermitAtClose ==
  \A p \in Pools :
    Built(p) =>
      /\ tracker[p] = 0 => sem[p] = 0
      /\ (\E w \in Waiters(p) : waiterPc[p][w] \in {"closeErrors", "closeSem", "done"})
           => (sem[p] = 0 /\ AllFinished(p) /\ callerPc[p] = "ready")
      /\ SemClosed(p) => \A u \in UnitsOf(p) : pc[u] = "finished"
      /\ fault = "none"

\* the semaphore is closed, empty, after every unit held a permit
C19_Witness ==
  \E p \in Pools :
    /\ SemClosed(p)
    /\ sem[p] = 0
    /\ UnitsOf(p) = Units
    /\ AllFinished(p)

\* C20: a unit waiting for a permit is blocked only while all N permits are
\* held by units in their body; so min(N, M) units can be in their body at
\* once.
C20_BlockedOnlyWhenFull ==
  \A u \in Units :
    (pc[u] = "acquire" /\ ~ENABLED Acquire(u)) =>
      /\ sem[pool[u]] = cap[pool[u]]
      /\ Cardinality(InBody(pool[u])) = cap[pool[u]]

\* with at least two permits, min(N, M) units are in their body at once
C20_Witness ==
  \E p \in Pools :
    /\ cap[p] >= 2
    /\ UnitsOf(p) = Units
    /\ Cardinality({u \in Units : pc[u] = "body"})
         = (IF cap[p] < MaxUnits THEN cap[p] ELSE MaxUnits)
====
